---- MODULE Spec2Model ----
(***************************************************************************)
(* Request execution layer of the Penpot API client: RequestBuilder        *)
(* (client/requestBuilder.ts), sendRequest (client/_internals/request.ts), *)
(* the error classes (client/errors.ts) and the event-stream extractor     *)
(* (client/_internals/sse.ts).                                             *)
(*                                                                         *)
(* One builder is configured through its setters and executed once.  Each  *)
(* `await` of sendRequest is split into a call step and a settle step, so  *)
(* that a suspended hook or dispatch is a state of the model.  User        *)
(* middleware hooks are opaque functions: a hook that is called either     *)
(* returns its argument with its own mark appended (a transform that       *)
(* leaves the other fields, the Cookie header included, untouched) or      *)
(* throws.  The transport either rejects or answers with any response of   *)
(* the set Responses.                                                      *)
(***************************************************************************)
EXTENDS Integers, Sequences, FiniteSets, TLC

VARIABLES clientConfig, requestConfig, pc, idx, running, request, response,
          dispatched, trace, decodes, thrown, outcome, result, sse, client

vars == <<clientConfig, requestConfig, pc, idx, running, request, response,
          dispatched, trace, decodes, thrown, outcome, result, sse, client>>

(***************************************************************************)
(* Bounds of the model.                                                    *)
(***************************************************************************)
MaxUserMiddleware == 2

\* The longest event stream, in events.
MaxEvents == 2

(***************************************************************************)
(* JavaScript values.                                                      *)
(***************************************************************************)
Null == [t |-> "null"]

Undefined == [t |-> "undefined"]

Str(s) == [t |-> "string", v |-> s]

Absent == "<absent>"

(***************************************************************************)
(* Error classes, client/errors.ts.                                        *)
(***************************************************************************)
NoStatus == 0 - 1

ApiClientError(message, cause) ==
    [name |-> "ApiClientError", message |-> message, cause |-> cause,
     status |-> NoStatus, statusText |-> Absent, details |-> Undefined]

StatusText(status) ==
    CASE status = 200 -> "OK"
      [] status = 300 -> "Multiple Choices"
      [] status = 404 -> "Not Found"
      [] OTHER -> ""

ApiHttpError(res, details) ==
    [name |-> "ApiHttpError",
     message |-> "HTTP Error: " \o ToString(res.status) \o " " \o StatusText(res.status),
     cause |-> details,
     status |-> res.status, statusText |-> StatusText(res.status),
     details |-> details]

\* An error of the runtime (TypeError, SyntaxError), not of the client's taxonomy.
RuntimeError(name, message) ==
    [name |-> name, message |-> message, cause |-> Undefined,
     status |-> NoStatus, statusText |-> Absent, details |-> Undefined]

\* What a failing user hook throws, and what a failing transport rejects with.
HookFailure == [t |-> "thrown", v |-> "hook failure"]

NetworkFailure == [t |-> "thrown", v |-> "TypeError: Failed to fetch"]

HookRejection == [t |-> "thrown", v |-> "hook rejection"]

AbortFailure == [t |-> "thrown", v |-> "AbortError: The operation was aborted"]

HookErrors == {HookFailure, HookRejection}

TransportErrors == {NetworkFailure, AbortFailure}

(***************************************************************************)
(* Client configuration, index.ts.  The PenpotClient constructor rejects   *)
(* an empty accessToken, so the client-wide credential is non-empty.  A    *)
(* user middleware entry is described by the hooks it provides.            *)
(***************************************************************************)
ClientTokens == {"tok"}

MiddlewareEntries ==
    {[onRequest |-> TRUE, onResponse |-> TRUE],
     [onRequest |-> TRUE, onResponse |-> FALSE],
     [onRequest |-> FALSE, onResponse |-> TRUE]}

MiddlewareLists ==
    UNION {[1..n -> MiddlewareEntries] : n \in 0..MaxUserMiddleware}

\* A URL: its origin, the segments of its path and whether it ends with a
\* slash.  A request path: absolute ("/a/b") or relative ("a/b").
Url(origin, segments, slash) == [origin |-> origin, segments |-> segments, slash |-> slash]

Path(absolute, segments) == [absolute |-> absolute, segments |-> segments]

\* https://design.penpot.app, the base URL of the field comment and the tests.
InstanceBaseUrl == Url("https://design.penpot.app", <<>>, FALSE)

\* https://design.penpot.app/api/rpc, the base URL of the interface docs.
RpcBaseUrl == Url("https://design.penpot.app", <<"api", "rpc">>, FALSE)

\* https://example.org/penpot/, an instance served below a path.
HostedBaseUrl == Url("https://example.org", <<"penpot">>, TRUE)

BaseUrls == {InstanceBaseUrl, RpcBaseUrl, HostedBaseUrl}

\* /api/rpc/command/get-file, and the relative path command/get-file.
CommandPath == Path(TRUE, <<"api", "rpc", "command", "get-file">>)

RelativeCommandPath == Path(FALSE, <<"command", "get-file">>)

PenpotClientConfig ==
    [baseUrl : {InstanceBaseUrl}, accessToken : ClientTokens, debug : BOOLEAN,
     middleware : MiddlewareLists]

(***************************************************************************)
(* RequestBuilder, client/requestBuilder.ts.                               *)
(***************************************************************************)
HeaderNames == {"content-type", "accept", "cookie", "authorization"}

\* Property keys, as the sequences of their characters.
KeyProjectId == <<"p", "r", "o", "j", "e", "c", "t", "I", "d">>

KeyName == <<"n", "a", "m", "e">>

KeyVersion == <<"v", "e", "r", "s", "i", "o", "n">>

KeyFile == <<"f", "i", "l", "e">>

Num(n) == [t |-> "number", v |-> n]

FileContent == [t |-> "Uint8Array", v |-> "bytes"]

\* An object is the sequence of its own properties, in insertion order.
Object(entries) == [t |-> "object", entries |-> entries]

\* A body without file: the parameters of a query command.
PlainMapping == Object(<<[key |-> KeyProjectId, value |-> Str("p1")]>>)

\* Bodies of importFile (ImportBinfileBody): the required fields; with the
\* optional version left undefined; with the file as first property and a
\* version number.
FileMapping ==
    Object(<<[key |-> KeyProjectId, value |-> Str("p1")],
             [key |-> KeyName, value |-> Str("design.penpot")],
             [key |-> KeyFile, value |-> FileContent]>>)

FileMappingUndefinedVersion ==
    Object(<<[key |-> KeyProjectId, value |-> Str("p1")],
             [key |-> KeyName, value |-> Str("design.penpot")],
             [key |-> KeyVersion, value |-> Undefined],
             [key |-> KeyFile, value |-> FileContent]>>)

FileMappingFileFirst ==
    Object(<<[key |-> KeyFile, value |-> FileContent],
             [key |-> KeyVersion, value |-> Num(3)],
             [key |-> KeyProjectId, value |-> Str("p1")],
             [key |-> KeyName, value |-> Str("design.penpot")]>>)

\* File-bearing bodies without a usable name: no name property, a name that
\* is undefined, an empty name.
FileMappingNoName ==
    Object(<<[key |-> KeyProjectId, value |-> Str("p1")],
             [key |-> KeyFile, value |-> FileContent]>>)

FileMappingUndefinedName ==
    Object(<<[key |-> KeyProjectId, value |-> Str("p1")],
             [key |-> KeyName, value |-> Undefined],
             [key |-> KeyFile, value |-> FileContent]>>)

FileMappingEmptyName ==
    Object(<<[key |-> KeyProjectId, value |-> Str("p1")],
             [key |-> KeyName, value |-> Str("")],
             [key |-> KeyFile, value |-> FileContent]>>)

\* (method, body) pairs the service facades hand to the constructor; the
\* body is absent, a plain mapping or a file-bearing mapping.
RequestInputs ==
    {<<"POST", Undefined>>, <<"POST", PlainMapping>>, <<"POST", FileMapping>>,
     <<"POST", FileMappingUndefinedVersion>>, <<"POST", FileMappingFileFirst>>,
     <<"POST", FileMappingNoName>>, <<"POST", FileMappingUndefinedName>>,
     <<"POST", FileMappingEmptyName>>, <<"GET", PlainMapping>>}

\* Arguments of withToken and of withHeader.
OverrideTokens == {"", "ovr"}

SetterHeaders == {<<"cookie", "auth-token=stale">>}

NewRequestBuilder(method, path, body) ==
    [method |-> method, path |-> path, body |-> body,
     headers |-> [h \in HeaderNames |->
                    IF h \in {"content-type", "accept"}
                    THEN "application/json" ELSE Absent],
     accessToken |-> Absent]

withToken(rc, token) == [rc EXCEPT !.accessToken = token]

withHeader(rc, key, value) == [rc EXCEPT !.headers[key] = value]

(***************************************************************************)
(* sendRequest, body shaping and request construction (request.ts 267-331).*)
(***************************************************************************)
\* requestConfig.accessToken || accessToken
finalAccessTokenOr(cc, rc) ==
    IF rc.accessToken \notin {Absent, ""} THEN rc.accessToken ELSE cc.accessToken

\* requestConfig.accessToken ?? accessToken
finalAccessToken(cc, rc) ==
    IF rc.accessToken # Absent THEN rc.accessToken ELSE cc.accessToken

\* payload && typeof payload === "object" && "file" in payload &&
\* (payload.file instanceof Uint8Array || payload.file instanceof Blob)
isFileUpload(payload) ==
    /\ payload.t = "object"
    /\ \E k \in DOMAIN payload.entries :
         /\ payload.entries[k].key = KeyFile
         /\ payload.entries[k].value.t \in {"Uint8Array", "Blob"}

UpperCase ==
    <<"A", "B", "C", "D", "E", "F", "G", "H", "I", "J", "K", "L", "M",
      "N", "O", "P", "Q", "R", "S", "T", "U", "V", "W", "X", "Y", "Z">>

LowerCase ==
    <<"a", "b", "c", "d", "e", "f", "g", "h", "i", "j", "k", "l", "m",
      "n", "o", "p", "q", "r", "s", "t", "u", "v", "w", "x", "y", "z">>

IsUpper(c) == \E i \in DOMAIN UpperCase : UpperCase[i] = c

toLowerCase(c) ==
    IF IsUpper(c) THEN LowerCase[CHOOSE i \in DOMAIN UpperCase : UpperCase[i] = c] ELSE c

\* replace(/([a-z0-9]|(?=[A-Z]))([A-Z])/g, "$1-$2"): every capital letter,
\* whatever stands before it, gets a dash in front.
RECURSIVE InsertDashes(_)
InsertDashes(str) ==
    IF str = <<>> THEN <<>>
    ELSE (IF IsUpper(Head(str)) THEN <<"-", Head(str)>> ELSE <<Head(str)>>)
             \o InsertDashes(Tail(str))

\* The key used as the name of the form field, unconverted.
keyUnconverted(str) == str

\* str.replace(...).toLowerCase()
camelToKebab(str) ==
    [i \in 1..Len(InsertDashes(str)) |-> toLowerCase(InsertDashes(str)[i])]

\* String(value)
String(value) ==
    CASE value.t = "string" -> value.v
      [] value.t = "number" -> ToString(value.v)
      [] value.t = "boolean" -> IF value.v THEN "true" ELSE "false"
      [] value.t = "null" -> "null"
      [] OTHER -> "undefined"

\* const { file, ...params } = payload
Params(payload) == SelectSeq(payload.entries, LAMBDA e : e.key # KeyFile)

Property(entries, key) ==
    IF \E k \in DOMAIN entries : entries[k].key = key
    THEN entries[CHOOSE k \in DOMAIN entries : entries[k].key = key].value
    ELSE Undefined

\* String(params.name) || "untitled"
FileName(params) ==
    IF String(Property(params, KeyName)) = "" THEN "untitled"
    ELSE String(Property(params, KeyName))

\* The parts of the FormData, in the order of the append calls.
FormData(payload) ==
    LET kept == SelectSeq(Params(payload), LAMBDA e : e.value # Undefined)
    IN  [k \in 1..Len(kept) |->
            [name |-> camelToKebab(kept[k].key), value |-> Str(String(kept[k].value)),
             filename |-> Absent]]
        \o <<[name |-> KeyFile,
              value |-> [t |-> "Blob", v |-> Property(payload.entries, KeyFile).v],
              filename |-> FileName(Params(payload))]>>

NoBody == [kind |-> "none"]

finalBody(payload) ==
    IF isFileUpload(payload) THEN [kind |-> "formdata", parts |-> FormData(payload)]
    ELSE IF payload # Undefined THEN [kind |-> "json", of |-> payload]
    ELSE NoBody

finalHeaders(rc) ==
    IF isFileUpload(rc.body)
    THEN [rc.headers EXCEPT !["content-type"] = Absent]
    ELSE IF rc.body # Undefined /\ rc.headers["content-type"] = Absent
    THEN [rc.headers EXCEPT !["content-type"] = "application/json"]
    ELSE rc.headers

\* new Request(url, {method, headers, body}): a body on a GET request is a
\* TypeError; a form body without Content-Type gets the multipart type.
RequestThrows(method, body) == method = "GET" /\ body.kind # "none"

\* new URL(path, baseUrl): an absolute path replaces the path of the base; a
\* relative path replaces what follows the last slash of the base.
URL(path, baseUrl) ==
    IF path.absolute
    THEN Url(baseUrl.origin, path.segments, FALSE)
    ELSE Url(baseUrl.origin,
             (IF baseUrl.slash \/ baseUrl.segments = <<>>
              THEN baseUrl.segments
              ELSE SubSeq(baseUrl.segments, 1, Len(baseUrl.segments) - 1))
                 \o path.segments,
             FALSE)

NewRequest(url, method, headers, body) ==
    [url |-> url, method |-> method,
     headers |-> IF body.kind = "formdata" /\ headers["content-type"] = Absent
                 THEN [headers EXCEPT !["content-type"] = "multipart/form-data"]
                 ELSE headers,
     body |-> body,
     marks |-> <<>>]

NoRequest == [url |-> Url(Absent, <<>>, FALSE), method |-> Absent,
              headers |-> [h \in HeaderNames |-> Absent],
              body |-> NoBody, marks |-> <<>>]

(***************************************************************************)
(* Middleware chain (request.ts 333-350).                                  *)
(***************************************************************************)
authMiddleware == [name |-> "auth", id |-> 0, onRequest |-> TRUE, onResponse |-> FALSE]

debugMiddleware == [name |-> "debug", id |-> 0, onRequest |-> TRUE, onResponse |-> TRUE]

UserMiddleware(cc) ==
    [i \in 1..Len(cc.middleware) |->
        [name |-> "user", id |-> i,
         onRequest |-> cc.middleware[i].onRequest,
         onResponse |-> cc.middleware[i].onResponse]]

\* The chain with the user entries ahead of the built-in ones.
allMiddlewareUsersFirst(cc) ==
    UserMiddleware(cc) \o <<authMiddleware>>
                       \o (IF cc.debug THEN <<debugMiddleware>> ELSE <<>>)

allMiddleware(cc) ==
    <<authMiddleware>> \o (IF cc.debug THEN <<debugMiddleware>> ELSE <<>>)
                       \o UserMiddleware(cc)

\* The credential sent as a bearer authorization instead of the cookie.
AuthOnRequestBearer(req, token) ==
    IF token # ""
    THEN [req EXCEPT !.headers["authorization"] = "Bearer " \o token]
    ELSE req

\* authMiddleware.onRequest
AuthOnRequest(req, token) ==
    IF token # ""
    THEN [req EXCEPT !.headers["cookie"] = "auth-token=" \o token]
    ELSE req

\* catch (error) { throw new ApiClientError("Middleware onRequest error", { cause: error }) }
OnRequestError(error) == ApiClientError("Middleware onRequest error", error)

\* An onResponse failure reported under the name of the other phase.
OnResponseErrorAsRequest(error) == ApiClientError("Middleware onRequest error", error)

\* catch (error) { throw new ApiClientError("Middleware onResponse error", { cause: error }) }
OnResponseError(error) == ApiClientError("Middleware onResponse error", error)

\* The request a hook returns when it does not throw.
OnRequestResult(mw, req, token) ==
    CASE mw.name = "auth" -> AuthOnRequest(req, token)
      [] mw.name = "debug" -> req
      [] OTHER -> [req EXCEPT !.marks = Append(@, mw.id)]

\* The response a hook returns when it does not throw.
OnResponseResult(mw, res) ==
    CASE mw.name = "debug" -> res
      [] OTHER -> [res EXCEPT !.marks = Append(@, mw.id)]

\* Only user hooks can throw: the built-in hooks have no failing path.
CanThrow(mw) == mw.name = "user"

(***************************************************************************)
(* The transport (request.ts 364-371): fetch(request) hands the request to *)
(* the network, once; sent is the sequence of requests handed over so far. *)
(***************************************************************************)
\* A transport call that is repeated.
fetchWithRetry(sent, req) == sent \o <<req, req>>

fetch(sent, req) == Append(sent, req)

\* The transport error wrapped without its cause.
NetworkErrorNoCause(error) == ApiClientError("Network request failed", Undefined)

\* catch (error) { throw new ApiClientError("Network request failed", { cause: error }) }
NetworkError(error) == ApiClientError("Network request failed", error)

(***************************************************************************)
(* Responses of the transport.  A body is null or a text; a non-null body  *)
(* can be read once (Fetch: a disturbed body is unusable).                 *)
(***************************************************************************)
NullBody == [t |-> "null"]

JsonNullText == "null"

JsonObjectText == "{\"code\":\"not-found\"}"

PlainText == "Internal Server Error"

SseEndText == "event: progress\ndata: {}\n\nevent: end\ndata: [\"~uabc-123\"]\n\n"

SseProgressText == "event: progress\ndata: {}\n\n"

BodyTexts == {JsonNullText, JsonObjectText, PlainText, SseEndText, SseProgressText}

Statuses == {200, 300, 404}

ContentTypes ==
    {"application/json", "application/json; charset=utf-8",
     "application/octet-stream", "text/event-stream", "text/plain", Absent}

Responses ==
    [status : Statuses, contentType : ContentTypes,
     body : {NullBody} \cup {Str(b) : b \in BodyTexts},
     bodyUsed : {FALSE}, marks : {<<>>}]

NoResponse == [status |-> 0, contentType |-> Absent, body |-> NullBody,
               bodyUsed |-> FALSE, marks |-> <<>>]

\* Response.ok
ok(res) == res.status >= 200 /\ res.status <= 299

\* Reading the body (json(), text(), arrayBuffer()): unusable when a
\* non-null body was read before; the text of a null body is empty.
BodyUnusable(res) == res.body # NullBody /\ res.bodyUsed

BodyText(res) == IF res.body = NullBody THEN "" ELSE res.body.v

Consumed(res) == IF res.body = NullBody THEN res ELSE [res EXCEPT !.bodyUsed = TRUE]

\* JSON.parse on the texts of the model.
JsonValid(text) == text \in {JsonNullText, JsonObjectText}

JsonParse(text) ==
    CASE text = JsonNullText -> Null
      [] text = JsonObjectText -> [t |-> "object", code |-> "not-found"]
      [] OTHER -> Undefined

(***************************************************************************)
(* handleSseResponse, client/_internals/sse.ts.  The parser turns the text *)
(* into events; the promise settles with the first resolve or reject.      *)
(***************************************************************************)
SseEvents(text) ==
    CASE text = SseEndText ->
           <<[event |-> "progress", data |-> "{}"],
             [event |-> "end", data |-> "[\"~uabc-123\"]"]>>
      [] text = SseProgressText -> <<[event |-> "progress", data |-> "{}"]>>
      [] OTHER -> <<>>

\* The data texts of the events of the model.
GoodEndData == "[\"~uabc-123\"]"

NestedPrefixEndData == "[\"~u~u1\"]"

TwoElementEndData == "[\"~uabc-123\",\"~uxyz\"]"

ObjectData == "{\"code\":\"invalid-file\"}"

EmptyArrayData == "[]"

NumberArrayData == "[42]"

NoPrefixEndData == "[\"abc\"]"

NotJsonData == "not-json"

Chars(str) ==
    CASE str = "~uabc-123" -> <<"~", "u", "a", "b", "c", "-", "1", "2", "3">>
      [] str = "~u~u1" -> <<"~", "u", "~", "u", "1">>
      [] str = "~uxyz" -> <<"~", "u", "x", "y", "z">>
      [] str = "abc" -> <<"a", "b", "c">>
      [] OTHER -> <<>>

\* JSON.parse of an event's data: validity, and for an array its elements
\* (a string element is the sequence of its characters).
DataValid(data) ==
    data \in {"{}", GoodEndData, NestedPrefixEndData, TwoElementEndData,
              ObjectData, EmptyArrayData, NumberArrayData, NoPrefixEndData}

DataArray(data) ==
    CASE data = GoodEndData -> <<[t |-> "string", chars |-> Chars("~uabc-123")]>>
      [] data = NestedPrefixEndData -> <<[t |-> "string", chars |-> Chars("~u~u1")]>>
      [] data = TwoElementEndData ->
           <<[t |-> "string", chars |-> Chars("~uabc-123")],
             [t |-> "string", chars |-> Chars("~uxyz")]>>
      [] data = NumberArrayData -> <<[t |-> "number", v |-> 42]>>
      [] data = NoPrefixEndData -> <<[t |-> "string", chars |-> Chars("abc")]>>
      [] OTHER -> <<>>

DataIsArray(data) ==
    data \in {GoodEndData, NestedPrefixEndData, TwoElementEndData,
              EmptyArrayData, NumberArrayData, NoPrefixEndData}

\* The value JSON.parse returns for a valid data text.
DataParse(data) ==
    CASE DataIsArray(data) -> [t |-> "array", items |-> DataArray(data)]
      [] data = ObjectData -> [t |-> "object", code |-> "invalid-file"]
      [] data = "{}" -> [t |-> "object"]
      [] OTHER -> Undefined

startsWith(chars, prefix) ==
    Len(chars) >= Len(prefix) /\ SubSeq(chars, 1, Len(prefix)) = prefix

\* taggedId.substring(2)
substring(chars, start) == SubSeq(chars, start + 1, Len(chars))

\* An array accepted only when it has exactly one element.
EndDataAcceptedSingle(data) ==
    /\ DataIsArray(data)
    /\ Len(DataArray(data)) = 1
    /\ DataArray(data)[1].t = "string"
    /\ startsWith(DataArray(data)[1].chars, <<"~", "u">>)

\* Array.isArray(parsedArray) && parsedArray.length > 0 &&
\* typeof parsedArray[0] === "string" && taggedId.startsWith("~u")
EndDataAccepted(data) ==
    /\ DataIsArray(data)
    /\ Len(DataArray(data)) > 0
    /\ DataArray(data)[1].t = "string"
    /\ startsWith(DataArray(data)[1].chars, <<"~", "u">>)

\* The format failure reported without the data.
EndFormatErrorNoData(data) ==
    ApiClientError("Unexpected SSE 'end' event data format", Undefined)

EndFormatError(data) ==
    ApiClientError("Unexpected SSE 'end' event data format: " \o data, Undefined)

EndParseError(data) ==
    ApiClientError("Failed to parse SSE 'end' event data: " \o data,
                   [t |-> "thrown", v |-> "SyntaxError"])

\* The raw text as cause, whether or not it parses.
ErrorEventErrorRaw(data) ==
    ApiClientError("Server sent an unparsable error event in the SSE stream", Str(data))

ErrorEventError(data) ==
    IF DataValid(data)
    THEN ApiClientError("Server sent an error event in the SSE stream", DataParse(data))
    ELSE ApiClientError("Server sent an unparsable error event in the SSE stream", Str(data))

\* A callback without the branch for error events.
OnEventErrorSkipped(ev) ==
    IF ev.event = "end" /\ ev.data # ""
    THEN IF ~DataValid(ev.data)
         THEN [do |-> "reject", with |-> EndParseError(ev.data)]
         ELSE IF EndDataAccepted(ev.data)
         THEN [do |-> "resolve",
               with |-> [fileId |-> substring(DataArray(ev.data)[1].chars, 2)]]
         ELSE [do |-> "reject", with |-> EndFormatError(ev.data)]
    ELSE [do |-> "none", with |-> Undefined]

\* The settlement an event asks for: "none", "resolve" or "reject".
OnEvent(ev) ==
    IF ev.event = "end" /\ ev.data # ""
    THEN IF ~DataValid(ev.data)
         THEN [do |-> "reject", with |-> EndParseError(ev.data)]
         ELSE IF EndDataAccepted(ev.data)
         THEN [do |-> "resolve",
               with |-> [fileId |-> substring(DataArray(ev.data)[1].chars, 2)]]
         ELSE [do |-> "reject", with |-> EndFormatError(ev.data)]
    ELSE IF ev.event = "error" /\ ev.data # ""
    THEN [do |-> "reject", with |-> ErrorEventError(ev.data)]
    ELSE [do |-> "none", with |-> Undefined]

\* A stream that ends without a terminal event taken for a success.
StreamEndedSilently == [do |-> "resolve", with |-> Undefined]

StreamEnded ==
    [do |-> "reject",
     with |-> ApiClientError("SSE stream ended unexpectedly without a valid 'end' event containing the file ID.",
                             Undefined)]

RECURSIVE FirstSettlement(_)
FirstSettlement(events) ==
    IF events = <<>> THEN StreamEnded
    ELSE IF OnEvent(Head(events)).do # "none" THEN OnEvent(Head(events))
    ELSE FirstSettlement(Tail(events))

handleSseResponse(res) ==
    IF res.body = NullBody
    THEN [do |-> "reject", with |-> ApiClientError("SSE response body is null.", Undefined)]
    ELSE FirstSettlement(SseEvents(BodyText(res)))

(***************************************************************************)
(* handleSseResponse on a body that arrives in chunks (sse.ts 24-106).     *)
(* The server writes every event as the lines "event: <name>" and          *)
(* "data: <data>" and a blank line.  The text reaches the reader cut into  *)
(* chunks at any place; a line of the model can be cut once, into a head   *)
(* and a tail, the tail carrying the line end.                             *)
(***************************************************************************)
EndPayloads ==
    {GoodEndData, NestedPrefixEndData, TwoElementEndData, "", NotJsonData,
     ObjectData, EmptyArrayData, NumberArrayData, NoPrefixEndData}

ErrorPayloads == {ObjectData, NotJsonData, ""}

SseAlphabet ==
    {[event |-> "progress", data |-> "{}"]}
        \cup {[event |-> "end", data |-> d] : d \in EndPayloads}
        \cup {[event |-> "error", data |-> d] : d \in ErrorPayloads}

SseStreams == UNION {[1..n -> SseAlphabet] : n \in 0..MaxEvents}

BlankLine == [field |-> "", value |-> ""]

Lines(ev) ==
    <<[field |-> "event", value |-> ev.event],
      [field |-> "data", value |-> ev.data],
      BlankLine>>

Pieces(line) ==
    IF line = BlankLine
    THEN <<[line |-> line, part |-> "whole"]>>
    ELSE <<[line |-> line, part |-> "head"], [line |-> line, part |-> "tail"]>>

RECURSIVE Wire(_)
Wire(events) ==
    IF events = <<>> THEN <<>>
    ELSE Pieces(Lines(Head(events))[1]) \o Pieces(Lines(Head(events))[2])
             \o Pieces(Lines(Head(events))[3]) \o Wire(Tail(events))

\* A stream the server closes before the blank line of its last event.
Truncate(wire) == IF wire = <<>> THEN wire ELSE SubSeq(wire, 1, Len(wire) - 1)

\* createParser(callback): the state of the parser.
createParser == [buffer |-> <<>>, eventName |-> Absent, data |-> <<>>]

RECURSIVE JoinLines(_)
JoinLines(values) ==
    IF Len(values) = 1 THEN values[1]
    ELSE values[1] \o "\n" \o JoinLines(Tail(values))

\* The parser on one complete line: a blank line dispatches the event when
\* a data line was seen, and resets the event name.
parseEventStreamLine(parser, line) ==
    IF line = BlankLine
    THEN [parser |-> [parser EXCEPT !.eventName = Absent, !.data = <<>>],
          events |-> IF parser.data # <<>>
                     THEN <<[event |-> parser.eventName, data |-> JoinLines(parser.data)]>>
                     ELSE <<>>]
    ELSE IF line.field = "event"
    THEN [parser |-> [parser EXCEPT !.eventName = line.value], events |-> <<>>]
    ELSE IF line.field = "data"
    THEN [parser |-> [parser EXCEPT !.data = Append(@, line.value)], events |-> <<>>]
    ELSE [parser |-> parser, events |-> <<>>]

\* The parser on one piece of text: an unfinished line waits in the buffer,
\* a tail finishes the line whose head waits there; a tail with nothing
\* waiting is a line of no known field.
FeedPiece(parser, piece) ==
    IF piece.part = "head"
    THEN [parser |-> [parser EXCEPT !.buffer = <<piece.line>>], events |-> <<>>]
    ELSE IF piece.part = "tail"
    THEN IF parser.buffer = <<piece.line>>
         THEN parseEventStreamLine([parser EXCEPT !.buffer = <<>>], piece.line)
         ELSE [parser |-> [parser EXCEPT !.buffer = <<>>], events |-> <<>>]
    ELSE parseEventStreamLine(parser, piece.line)

RECURSIVE FeedPieces(_, _)
FeedPieces(parser, chunk) ==
    IF chunk = <<>> THEN [parser |-> parser, events |-> <<>>]
    ELSE LET first == FeedPiece(parser, Head(chunk))
             rest == FeedPieces(first.parser, Tail(chunk))
         IN  [parser |-> rest.parser, events |-> first.events \o rest.events]

\* Every chunk parsed on its own: what waits in the buffer is dropped.
feedAlone(parser, chunk) == FeedPieces([parser EXCEPT !.buffer = <<>>], chunk)

\* parser.feed(decoder.decode(value, { stream: true }))
feed(parser, chunk) == FeedPieces(parser, chunk)

\* resolve and reject of the promise: the first settlement stays.
PendingPromise == [do |-> "none", with |-> Undefined]

\* A promise that takes every settlement, the last one staying.
SettlePromiseLast(promise, settlement) ==
    IF settlement.do = "none" THEN promise ELSE settlement

SettlePromise(promise, settlement) ==
    IF promise.do = "none" THEN settlement ELSE promise

\* The callback on the events of one chunk, in their order.
RECURSIVE Callbacks(_, _)
Callbacks(promise, events) ==
    IF events = <<>> THEN promise
    ELSE Callbacks(SettlePromise(promise, OnEvent(Head(events))), Tail(events))

NullBodyError ==
    [do |-> "reject", with |-> ApiClientError("SSE response body is null.", Undefined)]

ReadError(error) ==
    [do |-> "reject", with |-> ApiClientError("Error while reading SSE stream.", error)]

\* How the stream ends: the server closes it, or a read fails.
Endings == {"close", "error"}

NoSse ==
    [state |-> "idle", body |-> NullBody, events |-> <<>>, truncated |-> FALSE,
     ending |-> "close", rest |-> <<>>, parser |-> createParser,
     promise |-> PendingPromise, reads |-> 0]

(***************************************************************************)
(* sendRequest, status check and decode (request.ts 387-419).  Each        *)
(* operator gives the settlement of sendRequest ("returned" or "raised"),  *)
(* the body reads it performed and the response it leaves behind.          *)
(***************************************************************************)
BodyUnusableError == RuntimeError("TypeError", "Body is unusable")

JsonSyntaxError == RuntimeError("SyntaxError", "Unexpected token in JSON")

\* The failure body read as text only, never decoded.
FailureStatusTextOnly(res) ==
    IF BodyUnusable(res)
    THEN [kind |-> "raised", value |-> RuntimeError("TypeError", "Body is unusable"),
          reads |-> <<"error.text">>, res |-> res]
    ELSE [kind |-> "raised", value |-> ApiHttpError(res, Str(BodyText(res))),
          reads |-> <<"error.text">>, res |-> Consumed(res)]

\* if (!response.ok) { try { json() } catch { text() }; throw ApiHttpError }
FailureStatus(res) ==
    IF ~BodyUnusable(res) /\ JsonValid(BodyText(res))
    THEN [kind |-> "raised", value |-> ApiHttpError(res, JsonParse(BodyText(res))),
          reads |-> <<"error.json">>, res |-> Consumed(res)]
    ELSE IF BodyUnusable(Consumed(res))
    THEN [kind |-> "raised", value |-> BodyUnusableError,
          reads |-> <<"error.json", "error.text">>, res |-> Consumed(res)]
    ELSE [kind |-> "raised", value |-> ApiHttpError(res, Str(BodyText(res))),
          reads |-> <<"error.json", "error.text">>, res |-> Consumed(res)]

\* The media types that occur as a substring of a content type of the model;
\* an absent header is the empty string.
MediaTypesIn(contentType) ==
    CASE contentType = Absent -> {}
      [] contentType = "application/json; charset=utf-8" -> {"application/json"}
      [] OTHER -> {contentType}

\* A comparison of the whole header value instead of a substring test.
equalsExactly(contentType, kind) == contentType = kind

\* contentType.includes(kind)
includes(contentType, kind) == kind \in MediaTypesIn(contentType)

Decode(res) ==
    IF includes(res.contentType, "application/json")
    THEN IF BodyUnusable(res)
         THEN [kind |-> "raised", value |-> BodyUnusableError,
               reads |-> <<"json">>, res |-> res]
         ELSE IF JsonValid(BodyText(res))
         THEN [kind |-> "returned", value |-> JsonParse(BodyText(res)),
               reads |-> <<"json">>, res |-> Consumed(res)]
         ELSE [kind |-> "raised", value |-> JsonSyntaxError,
               reads |-> <<"json">>, res |-> Consumed(res)]
    ELSE IF includes(res.contentType, "application/octet-stream")
    THEN IF BodyUnusable(res)
         THEN [kind |-> "raised", value |-> BodyUnusableError,
               reads |-> <<"arrayBuffer">>, res |-> res]
         ELSE [kind |-> "returned", value |-> [t |-> "bytes", v |-> BodyText(res)],
               reads |-> <<"arrayBuffer">>, res |-> Consumed(res)]
    ELSE IF includes(res.contentType, "text/event-stream")
    THEN [kind |-> IF handleSseResponse(res).do = "resolve" THEN "returned" ELSE "raised",
          value |-> handleSseResponse(res).with,
          reads |-> <<"sse">>, res |-> Consumed(res)]
    ELSE IF BodyUnusable(res)
         THEN [kind |-> "raised", value |-> BodyUnusableError,
               reads |-> <<"text">>, res |-> res]
         ELSE [kind |-> "returned", value |-> Str(BodyText(res)),
               reads |-> <<"text">>, res |-> Consumed(res)]

(***************************************************************************)
(* RequestBuilder.exec (requestBuilder.ts 88-95): the promise of exec and  *)
(* the value it settles with.                                              *)
(***************************************************************************)
ExecReturn(data) == [promise |-> "resolved", data |-> data, error |-> Null]

\* exec without its catch clause: the promise of exec rejects.
ExecCatchRethrows(error) == [promise |-> "rejected", data |-> Undefined, error |-> error]

ExecCatch(error) == [promise |-> "resolved", data |-> Null, error |-> error]

Pending == [promise |-> "pending", data |-> Undefined, error |-> Undefined]

NoOutcome == [kind |-> "pending", value |-> Undefined]

\* sendRequest settles with o, and exec converts the settlement.
Settle(o) ==
    /\ outcome' = [kind |-> o.kind, value |-> o.value]
    /\ result' = IF o.kind = "returned" THEN ExecReturn(o.value) ELSE ExecCatch(o.value)
    /\ pc' = "done"

\* A call that is not awaited: the function goes on at once.
NotAwaited == TRUE

\* The awaited call has settled, so the function may go on.
Awaited == running = {}

\* An entry of the history of calls and settlements; who is the middleware
\* entry whose hook it is, or the phase itself.
Who(mw) == <<mw.name, mw.id>>

Event(op, phase, who, marks) == [op |-> op, phase |-> phase, who |-> who, marks |-> marks]

(***************************************************************************)
(* The service facade, client/services/files.ts: every method builds a     *)
(* RequestBuilder from the client configuration and its parameters.        *)
(***************************************************************************)
Bool(b) == [t |-> "boolean", v |-> b]

KeyFileId == <<"f", "i", "l", "e", "-", "i", "d">>

KeyIncludeLibraries ==
    <<"i", "n", "c", "l", "u", "d", "e", "-", "l", "i", "b", "r", "a", "r", "i", "e", "s">>

KeyEmbedAssets == <<"e", "m", "b", "e", "d", "-", "a", "s", "s", "e", "t", "s">>

ExportPath == Path(TRUE, <<"api", "rpc", "command", "export-binfile">>)

ImportPath == Path(TRUE, <<"api", "rpc", "command", "import-binfile">>)

\* What a caller of exportFile asks for: the documented optional flags are
\* given or left out.
ExportRequests ==
    {[id |-> Str("f1"), includeLibraries |-> Undefined, embedAssets |-> Undefined,
      version |-> Undefined],
     [id |-> Str("f1"), includeLibraries |-> Bool(FALSE), embedAssets |-> Undefined,
      version |-> Undefined],
     [id |-> Str("f1"), includeLibraries |-> Bool(FALSE), embedAssets |-> Bool(TRUE),
      version |-> Num(1)]}

getFile(params) == NewRequestBuilder("POST", CommandPath, params)

exportFile(params) ==
    NewRequestBuilder("POST", ExportPath,
        Object(<<[key |-> KeyFileId, value |-> params.id],
                 [key |-> KeyIncludeLibraries, value |-> Bool(TRUE)],
                 [key |-> KeyEmbedAssets, value |-> Bool(FALSE)],
                 [key |-> KeyVersion, value |-> Num(3)]>>))

importFile(params) == NewRequestBuilder("POST", ImportPath, params)

\* The calls that create the builders of one client: the facade methods, and
\* the constructor used directly with a relative path.
FacadeCalls ==
    {[op |-> "getFile", params |-> PlainMapping],
     [op |-> "importFile", params |-> FileMapping],
     [op |-> "RequestBuilder", params |-> PlainMapping]}
        \cup {[op |-> "exportFile", params |-> p] : p \in ExportRequests}

BuilderOf(call) ==
    CASE call.op = "getFile" -> getFile(call.params)
      [] call.op = "importFile" -> importFile(call.params)
      [] call.op = "exportFile" -> exportFile(call.params)
      [] OTHER -> NewRequestBuilder("POST", RelativeCommandPath, call.params)

(***************************************************************************)
(* Several executions of one client.  Each call of sendRequest has its own *)
(* local variables (request.ts 267-331): the request, the response, the    *)
(* credential its auth hook closes over.  The transport answers by the     *)
(* request alone.                                                          *)
(***************************************************************************)
Builders == {1, 2}

Executions == {1, 2}

NoBuilder == [method |-> Absent]

\* Client configurations of the several-executions process.
SharedClientConfigs ==
    [baseUrl : BaseUrls, accessToken : ClientTokens, debug : BOOLEAN,
     middleware : {<<>>, <<[onRequest |-> TRUE, onResponse |-> TRUE]>>}]

\* The server: no answer from an unreachable host, 404 without a valid
\* credential, otherwise the answer of the command.
Transport(req) ==
    IF req.url.origin = "https://example.org"
    THEN [kind |-> "reject", error |-> NetworkFailure]
    ELSE [kind |-> "resolve",
          res |->
            IF req.headers["cookie"] \notin {"auth-token=tok", "auth-token=ovr"}
            THEN [status |-> 404, contentType |-> "application/json",
                  body |-> Str(JsonObjectText), bodyUsed |-> FALSE, marks |-> <<>>]
            ELSE IF req.body.kind = "formdata"
            THEN [status |-> 200, contentType |-> "text/event-stream",
                  body |-> Str(SseEndText), bodyUsed |-> FALSE, marks |-> <<>>]
            ELSE IF req.url.segments = ExportPath.segments
            THEN [status |-> 200, contentType |-> "application/octet-stream",
                  body |-> Str(PlainText), bodyUsed |-> FALSE, marks |-> <<>>]
            ELSE [status |-> 200, contentType |-> "application/json",
                  body |-> Str(JsonObjectText), bodyUsed |-> FALSE, marks |-> <<>>]]

\* A setter that writes the override into the shared configuration.
clientConfigOverridden(cc, token) == [cc EXCEPT !.accessToken = token]

\* withToken assigns this.requestConfig.accessToken only: the configuration
\* after the call is the configuration before it.
clientConfigAfterWithToken(cc, token) == cc

\* The headers as the debug hook prints them, the Cookie value included.
DebugHeadersUnredacted(headers) == headers

\* headersObject of debugMiddleware.onRequest: a Cookie header that is
\* present is printed as auth-token=[REDACTED].
DebugHeaders(headers) ==
    [h \in DOMAIN headers |->
        IF h = "cookie" /\ headers[h] # Absent THEN "auth-token=[REDACTED]" ELSE headers[h]]

\* What debugMiddleware.onRequest writes to the console.
DebugRequestLog(req) ==
    [method |-> req.method, url |-> req.url, headers |-> DebugHeaders(req.headers),
     body |-> req.body]

\* The builder's own headers after an execution, when the execution works
\* on them directly.
initialHeadersShared(rc) == finalHeaders(rc)

\* new Headers(initialHeaders) is a copy: the builder's own headers after an
\* execution are what they were.
initialHeaders(rc) == rc.headers

\* One request variable for all executions.
SharedRequest(executions, e) == executions[1].request

\* let request = new Request(...): the request of execution e.
LocalRequest(executions, e) == executions[e].request

ResultOf(o) == IF o.kind = "returned" THEN ExecReturn(o.value) ELSE ExecCatch(o.value)

NoExecution ==
    [builder |-> 0, rc |-> NoBuilder, token |-> Absent, pc |-> "idle", idx |-> 0,
     request |-> NoRequest, response |-> NoResponse, dispatched |-> <<>>,
     log |-> <<>>, result |-> Pending]

NoClient ==
    [call |-> [op |-> Absent, params |-> Undefined],
     builders |-> [b \in Builders |-> NoBuilder],
     executions |-> [e \in Executions |-> NoExecution]]

(***************************************************************************)
(* The state machine.                                                      *)
(***************************************************************************)
\* for (const mw of allMiddleware) if (mw.onRequest): the next entry from
\* i on that has the hook, or Len(all) + 1.
NextOnRequest(all, i) ==
    IF \E j \in i..Len(all) : all[j].onRequest
    THEN CHOOSE j \in i..Len(all) :
           all[j].onRequest /\ \A k \in i..(j - 1) : ~all[k].onRequest
    ELSE Len(all) + 1

\* for (let i = length - 1; i >= 0; i--) if (mw.onResponse): the next entry
\* from i down that has the hook, or 0.
NextOnResponse(all, i) ==
    IF \E j \in 1..i : all[j].onResponse
    THEN CHOOSE j \in 1..i :
           all[j].onResponse /\ \A k \in (j + 1)..i : ~all[k].onResponse
    ELSE 0

Init ==
    /\ clientConfig \in PenpotClientConfig
    /\ \E in \in RequestInputs : requestConfig = NewRequestBuilder(in[1], CommandPath, in[2])
    /\ pc = "build"
    /\ idx = 0
    /\ running = {}
    /\ request = NoRequest
    /\ response = NoResponse
    /\ dispatched = <<>>
    /\ trace = <<>>
    /\ decodes = <<>>
    /\ thrown = Undefined
    /\ outcome = NoOutcome
    /\ result = Pending
    /\ sse = NoSse
    /\ client = NoClient

WithToken ==
    /\ pc = "build"
    /\ \E token \in OverrideTokens : requestConfig' = withToken(requestConfig, token)
    /\ UNCHANGED <<clientConfig, pc, idx, running, request, response,
                   dispatched, trace, decodes, outcome, result>>
    /\ UNCHANGED <<thrown, sse, client>>

WithHeader ==
    /\ pc = "build"
    /\ \E kv \in SetterHeaders : requestConfig' = withHeader(requestConfig, kv[1], kv[2])
    /\ UNCHANGED <<clientConfig, pc, idx, running, request, response,
                   dispatched, trace, decodes, outcome, result>>
    /\ UNCHANGED <<thrown, sse, client>>

\* exec() calls sendRequest, which shapes the body and builds the request.
Exec ==
    /\ pc = "build"
    /\ IF RequestThrows(requestConfig.method, finalBody(requestConfig.body))
       THEN /\ Settle([kind |-> "raised",
                       value |-> RuntimeError("TypeError",
                                              "Request with GET/HEAD method cannot have body")])
            /\ UNCHANGED <<request, idx>>
       ELSE /\ request' = NewRequest(URL(requestConfig.path, clientConfig.baseUrl),
                                     requestConfig.method, finalHeaders(requestConfig),
                                     finalBody(requestConfig.body))
            /\ pc' = "onRequest"
            /\ idx' = 1
            /\ UNCHANGED <<outcome, result>>
    /\ UNCHANGED <<clientConfig, requestConfig, running, response, dispatched,
                   trace, decodes>>
    /\ UNCHANGED <<thrown, sse, client>>

OnRequestCall ==
    /\ pc = "onRequest"
    /\ Awaited
    /\ LET all == allMiddleware(clientConfig)
           j == NextOnRequest(all, idx)
       IN  /\ j <= Len(all)
           /\ running' = running \cup {[phase |-> "onRequest", i |-> j]}
           /\ idx' = j + 1
           /\ trace' = Append(trace, Event("call", "onRequest", Who(all[j]), request.marks))
    /\ UNCHANGED <<clientConfig, requestConfig, pc, request, response, dispatched,
                   decodes, outcome, result>>
    /\ UNCHANGED <<thrown, sse, client>>

OnRequestReturn ==
    /\ pc = "onRequest"
    /\ \E r \in running :
         /\ r.phase = "onRequest"
         /\ request' = OnRequestResult(allMiddleware(clientConfig)[r.i], request,
                                       finalAccessToken(clientConfig, requestConfig))
         /\ running' = running \ {r}
         /\ trace' = Append(trace, Event("settle", "onRequest", Who(allMiddleware(clientConfig)[r.i]), request'.marks))
    /\ UNCHANGED <<clientConfig, requestConfig, pc, idx, response, dispatched,
                   decodes, outcome, result>>
    /\ UNCHANGED <<thrown, sse, client>>

OnRequestThrow ==
    /\ pc = "onRequest"
    /\ \E r \in running :
         /\ r.phase = "onRequest"
         /\ CanThrow(allMiddleware(clientConfig)[r.i])
         /\ running' = running \ {r}
         /\ trace' = Append(trace, Event("throw", "onRequest", Who(allMiddleware(clientConfig)[r.i]), request.marks))
    /\ \E error \in HookErrors :
         /\ thrown' = error
         /\ Settle([kind |-> "raised", value |-> OnRequestError(error)])
    /\ UNCHANGED <<clientConfig, requestConfig, idx, request, response, dispatched,
                   decodes>>
    /\ UNCHANGED <<sse, client>>

\* response = await fetch(request)
FetchCall ==
    /\ pc = "onRequest"
    /\ Awaited
    /\ NextOnRequest(allMiddleware(clientConfig), idx) > Len(allMiddleware(clientConfig))
    /\ pc' = "fetch"
    /\ running' = running \cup {[phase |-> "fetch", i |-> 0]}
    /\ dispatched' = fetch(dispatched, request)
    /\ trace' = Append(trace, Event("call", "fetch", <<"fetch", 0>>, request.marks))
    /\ UNCHANGED <<clientConfig, requestConfig, idx, request, response, decodes,
                   outcome, result>>
    /\ UNCHANGED <<thrown, sse, client>>

FetchResolve ==
    /\ pc = "fetch"
    /\ [phase |-> "fetch", i |-> 0] \in running
    /\ \E res \in Responses : response' = res
    /\ running' = running \ {[phase |-> "fetch", i |-> 0]}
    /\ pc' = "onResponse"
    /\ idx' = Len(allMiddleware(clientConfig))
    /\ trace' = Append(trace, Event("settle", "fetch", <<"fetch", 0>>, <<>>))
    /\ UNCHANGED <<clientConfig, requestConfig, request, dispatched, decodes,
                   outcome, result>>
    /\ UNCHANGED <<thrown, sse, client>>

FetchReject ==
    /\ pc = "fetch"
    /\ [phase |-> "fetch", i |-> 0] \in running
    /\ running' = running \ {[phase |-> "fetch", i |-> 0]}
    /\ trace' = Append(trace, Event("throw", "fetch", <<"fetch", 0>>, <<>>))
    /\ \E error \in TransportErrors :
         /\ thrown' = error
         /\ Settle([kind |-> "raised", value |-> NetworkError(error)])
    /\ UNCHANGED <<clientConfig, requestConfig, idx, request, response, dispatched,
                   decodes>>
    /\ UNCHANGED <<sse, client>>

OnResponseCall ==
    /\ pc = "onResponse"
    /\ Awaited
    /\ LET all == allMiddleware(clientConfig)
           j == NextOnResponse(all, idx)
       IN  /\ j >= 1
           /\ running' = running \cup {[phase |-> "onResponse", i |-> j]}
           /\ idx' = j - 1
           /\ trace' = Append(trace, Event("call", "onResponse", Who(all[j]), response.marks))
    /\ UNCHANGED <<clientConfig, requestConfig, pc, request, response, dispatched,
                   decodes, outcome, result>>
    /\ UNCHANGED <<thrown, sse, client>>

OnResponseReturn ==
    /\ pc = "onResponse"
    /\ \E r \in running :
         /\ r.phase = "onResponse"
         /\ response' = OnResponseResult(allMiddleware(clientConfig)[r.i], response)
         /\ running' = running \ {r}
         /\ trace' = Append(trace, Event("settle", "onResponse", Who(allMiddleware(clientConfig)[r.i]), response'.marks))
    /\ UNCHANGED <<clientConfig, requestConfig, pc, idx, request, dispatched,
                   decodes, outcome, result>>
    /\ UNCHANGED <<thrown, sse, client>>

OnResponseThrow ==
    /\ pc = "onResponse"
    /\ \E r \in running :
         /\ r.phase = "onResponse"
         /\ CanThrow(allMiddleware(clientConfig)[r.i])
         /\ running' = running \ {r}
         /\ trace' = Append(trace, Event("throw", "onResponse", Who(allMiddleware(clientConfig)[r.i]), response.marks))
    /\ \E error \in HookErrors :
         /\ thrown' = error
         /\ Settle([kind |-> "raised", value |-> OnResponseError(error)])
    /\ UNCHANGED <<clientConfig, requestConfig, idx, request, response, dispatched,
                   decodes>>
    /\ UNCHANGED <<sse, client>>

\* if (!response.ok) { ... throw new ApiHttpError(response, errorDetails) }
StatusCheck ==
    /\ pc = "onResponse"
    /\ Awaited
    /\ NextOnResponse(allMiddleware(clientConfig), idx) = 0
    /\ trace' = Append(trace, Event("call", "status", <<"status", 0>>, response.marks))
    /\ IF ~ok(response)
       THEN /\ Settle(FailureStatus(response))
            /\ decodes' = decodes \o FailureStatus(response).reads
            /\ response' = FailureStatus(response).res
       ELSE /\ pc' = "decode"
            /\ UNCHANGED <<decodes, response, outcome, result>>
    /\ UNCHANGED <<clientConfig, requestConfig, idx, running, request, dispatched>>
    /\ UNCHANGED <<thrown, sse, client>>

\* const contentType = ...; if (contentType.includes(...)) return ...
DecodeBody ==
    /\ pc = "decode"
    /\ Awaited
    /\ trace' = Append(trace, Event("call", "decode", <<"decode", 0>>, response.marks))
    /\ Settle(Decode(response))
    /\ decodes' = decodes \o Decode(response).reads
    /\ response' = Decode(response).res
    /\ UNCHANGED <<clientConfig, requestConfig, idx, running, request, dispatched>>
    /\ UNCHANGED <<thrown, sse, client>>

Next ==
    \/ WithToken
    \/ WithHeader
    \/ Exec
    \/ OnRequestCall
    \/ OnRequestReturn
    \/ OnRequestThrow
    \/ FetchCall
    \/ FetchResolve
    \/ FetchReject
    \/ OnResponseCall
    \/ OnResponseReturn
    \/ OnResponseThrow
    \/ StatusCheck
    \/ DecodeBody

Spec == Init /\ [][Next]_vars

(***************************************************************************)
(* handleSseResponse as a process of its own: one call on a response whose *)
(* body is null or a stream of SseStreams.                                 *)
(***************************************************************************)
SseInit ==
    /\ clientConfig = [baseUrl |-> InstanceBaseUrl, accessToken |-> "tok",
                       debug |-> FALSE, middleware |-> <<>>]
    /\ requestConfig = NewRequestBuilder("POST", CommandPath, FileMapping)
    /\ pc = "decode"
    /\ idx = 0
    /\ running = {}
    /\ request = NoRequest
    /\ response = NoResponse
    /\ dispatched = <<>>
    /\ trace = <<>>
    /\ decodes = <<>>
    /\ thrown = Undefined
    /\ outcome = NoOutcome
    /\ result = Pending
    /\ client = NoClient
    /\ \/ sse = [NoSse EXCEPT !.state = "created"]
       \/ \E events \in SseStreams, truncated \in BOOLEAN, ending \in Endings :
            /\ truncated => events # <<>>
            /\ sse = [state |-> "created", body |-> Str("stream"), events |-> events,
                      truncated |-> truncated, ending |-> ending,
                      rest |-> IF truncated THEN Truncate(Wire(events)) ELSE Wire(events),
                      parser |-> createParser, promise |-> PendingPromise, reads |-> 0]

\* if (!response.body) return Promise.reject(...); otherwise the parser and
\* the reader are created and processStream starts.
SseStart ==
    /\ sse.state = "created"
    /\ sse' = IF sse.body = NullBody
              THEN [sse EXCEPT !.state = "closed", !.promise = NullBodyError]
              ELSE [sse EXCEPT !.state = "reading"]
    /\ UNCHANGED <<clientConfig, requestConfig, pc, idx, running, request, response,
                   dispatched, trace, decodes, thrown, outcome, result, client>>

\* reader.read() gives a chunk, which is fed to the parser; the loop goes on
\* whatever the callback did.
SseRead ==
    /\ sse.state = "reading"
    /\ \E k \in 1..Len(sse.rest) :
         LET fed == feed(sse.parser, SubSeq(sse.rest, 1, k))
         IN  sse' = [sse EXCEPT !.rest = SubSeq(sse.rest, k + 1, Len(sse.rest)),
                                !.parser = fed.parser,
                                !.promise = Callbacks(sse.promise, fed.events),
                                !.reads = @ + 1]
    /\ UNCHANGED <<clientConfig, requestConfig, pc, idx, running, request, response,
                   dispatched, trace, decodes, thrown, outcome, result, client>>

\* reader.read() gives done: reject and leave the loop.
SseReadDone ==
    /\ sse.state = "reading"
    /\ sse.rest = <<>>
    /\ sse.ending = "close"
    /\ sse' = [sse EXCEPT !.state = "closed",
                          !.promise = SettlePromise(sse.promise, StreamEnded)]
    /\ UNCHANGED <<clientConfig, requestConfig, pc, idx, running, request, response,
                   dispatched, trace, decodes, thrown, outcome, result, client>>

\* reader.read() rejects: the catch of processStream.
SseReadError ==
    /\ sse.state = "reading"
    /\ sse.ending = "error"
    /\ \E error \in TransportErrors :
         /\ thrown' = error
         /\ sse' = [sse EXCEPT !.state = "closed",
                               !.promise = SettlePromise(sse.promise, ReadError(error))]
    /\ UNCHANGED <<clientConfig, requestConfig, pc, idx, running, request, response,
                   dispatched, trace, decodes, outcome, result, client>>

SseNext ==
    \/ SseStart
    \/ SseRead
    \/ SseReadDone
    \/ SseReadError

SseSpec == SseInit /\ [][SseNext]_vars

(***************************************************************************)
(* One client, two builders made by the same facade call, two executions   *)
(* that interleave at their awaits.                                        *)
(***************************************************************************)
ClientInit ==
    /\ clientConfig \in SharedClientConfigs
    /\ requestConfig = NewRequestBuilder("POST", CommandPath, Undefined)
    /\ pc = "build"
    /\ idx = 0
    /\ running = {}
    /\ request = NoRequest
    /\ response = NoResponse
    /\ dispatched = <<>>
    /\ trace = <<>>
    /\ decodes = <<>>
    /\ thrown = Undefined
    /\ outcome = NoOutcome
    /\ result = Pending
    /\ sse = NoSse
    /\ \E call \in FacadeCalls : client = [NoClient EXCEPT !.call = call]

ClientUnchanged ==
    UNCHANGED <<clientConfig, requestConfig, pc, idx, running, request, response,
                dispatched, trace, decodes, thrown, outcome, result, sse>>

\* client.files.getFile(...), importFile(...), exportFile(...)
CreateBuilder(b) ==
    /\ client.builders[b] = NoBuilder
    /\ client' = [client EXCEPT !.builders[b] = BuilderOf(client.call)]
    /\ ClientUnchanged

BuilderWithToken(b) ==
    /\ client.builders[b] # NoBuilder
    /\ \E token \in OverrideTokens :
         /\ client' = [client EXCEPT !.builders[b] = withToken(@, token)]
         /\ clientConfig' = clientConfigAfterWithToken(clientConfig, token)
    /\ UNCHANGED <<requestConfig, pc, idx, running, request, response, dispatched,
                   trace, decodes, thrown, outcome, result, sse>>

\* exec() on builder b: sendRequest up to its first await.
BuilderExec(e, b) ==
    /\ client.executions[e].pc = "idle"
    /\ e = 1 => b = 1
    /\ client.builders[b] # NoBuilder
    /\ LET rc == client.builders[b]
           started == [NoExecution EXCEPT !.builder = b, !.rc = rc,
                                          !.token = finalAccessToken(clientConfig, rc)]
       IN  client' =
             [client EXCEPT
                !.builders[b].headers = initialHeaders(rc),
                !.executions[e] =
                    IF RequestThrows(rc.method, finalBody(rc.body))
                    THEN [started EXCEPT
                            !.pc = "done",
                            !.result = ExecCatch(RuntimeError("TypeError",
                                         "Request with GET/HEAD method cannot have body"))]
                    ELSE [started EXCEPT
                            !.pc = "onRequest",
                            !.idx = 1,
                            !.request = NewRequest(URL(rc.path, clientConfig.baseUrl),
                                                   rc.method, finalHeaders(rc),
                                                   finalBody(rc.body))]]
    /\ ClientUnchanged

\* request = await mw.onRequest(request), for the next entry with the hook.
ExecutionOnRequest(e) ==
    LET ex == client.executions[e]
        all == allMiddleware(clientConfig)
        j == NextOnRequest(all, ex.idx)
        req == LocalRequest(client.executions, e)
    IN  /\ ex.pc = "onRequest"
        /\ j <= Len(all)
        /\ client' = [client EXCEPT
                        !.executions[e].request = OnRequestResult(all[j], req, ex.token),
                        !.executions[e].idx = j + 1,
                        !.executions[e].log =
                            IF all[j].name = "debug"
                            THEN Append(@, DebugRequestLog(req)) ELSE @]
        /\ ClientUnchanged

\* response = await fetch(request)
ExecutionFetch(e) ==
    LET ex == client.executions[e]
        all == allMiddleware(clientConfig)
        req == LocalRequest(client.executions, e)
    IN  /\ ex.pc = "onRequest"
        /\ NextOnRequest(all, ex.idx) > Len(all)
        /\ client' = [client EXCEPT
                        !.executions[e] =
                            IF Transport(req).kind = "reject"
                            THEN [ex EXCEPT !.dispatched = fetch(@, req),
                                            !.pc = "done",
                                            !.result = ExecCatch(NetworkError(Transport(req).error))]
                            ELSE [ex EXCEPT !.dispatched = fetch(@, req),
                                            !.pc = "onResponse",
                                            !.idx = Len(all),
                                            !.response = Transport(req).res]]
        /\ ClientUnchanged

\* response = await mw.onResponse(response), for the next entry with the hook.
ExecutionOnResponse(e) ==
    LET ex == client.executions[e]
        all == allMiddleware(clientConfig)
        j == NextOnResponse(all, ex.idx)
    IN  /\ ex.pc = "onResponse"
        /\ j >= 1
        /\ client' = [client EXCEPT
                        !.executions[e].response = OnResponseResult(all[j], ex.response),
                        !.executions[e].idx = j - 1]
        /\ ClientUnchanged

\* The status check and the decode, and the Result of exec().
ExecutionFinish(e) ==
    LET ex == client.executions[e]
        all == allMiddleware(clientConfig)
        o == IF ok(ex.response) THEN Decode(ex.response) ELSE FailureStatus(ex.response)
    IN  /\ ex.pc = "onResponse"
        /\ NextOnResponse(all, ex.idx) = 0
        /\ client' = [client EXCEPT
                        !.executions[e].pc = "done",
                        !.executions[e].response = o.res,
                        !.executions[e].result = ResultOf(o)]
        /\ ClientUnchanged

ClientNext ==
    \/ \E b \in Builders : CreateBuilder(b)
    \/ \E b \in Builders : BuilderWithToken(b)
    \/ \E e \in Executions, b \in Builders : BuilderExec(e, b)
    \/ \E e \in Executions : ExecutionOnRequest(e)
    \/ \E e \in Executions : ExecutionFetch(e)
    \/ \E e \in Executions : ExecutionOnResponse(e)
    \/ \E e \in Executions : ExecutionFinish(e)

ClientSpec == ClientInit /\ [][ClientNext]_vars

(***************************************************************************)
(* Properties.                                                             *)
(***************************************************************************)
StatusChecked == \E k \in DOMAIN trace : trace[k].phase = "status"

SuccessReads == {"json", "arrayBuffer", "sse", "text"}

\* C1: every Result returned by exec() has exactly one branch populated:
\* data set and error null, or data null and error set.
C1_ExactlyOneBranch ==
    result.promise = "resolved" =>
        \/ result.data # Null /\ result.error = Null
        \/ result.data = Null /\ result.error # Null

\* C2: exec() never rejects: whatever sendRequest raised is the error branch
\* of the Result exec resolves with, and the data branch is null.
C2_ExecNeverRejects ==
    /\ result.promise # "rejected"
    /\ outcome.kind = "raised" =>
         /\ result.promise = "resolved"
         /\ result.error = outcome.value
         /\ result.data = Null
    /\ pc = "done" => result.promise = "resolved"

C2_Witness ==
    /\ pc = "done"
    /\ outcome.kind = "raised"
    /\ outcome.value.message = "Network request failed"
    /\ result.error = outcome.value

\* C3: every error raised by sendRequest, and so every error in a Result, is
\* an ApiHttpError or an ApiClientError.
C3_OnlyTaxonomyErrors ==
    outcome.kind = "raised" =>
        /\ outcome.value.name \in {"ApiHttpError", "ApiClientError"}
        /\ result.error.name \in {"ApiHttpError", "ApiClientError"}

Reverse(s) == [k \in 1..Len(s) |-> s[Len(s) + 1 - k]]

IsPrefix(s, t) == Len(s) <= Len(t) /\ \A k \in 1..Len(s) : s[k] = t[k]

\* The user entries, by registration index, that provide a hook.
UsersWithOnRequest ==
    SelectSeq([i \in 1..Len(clientConfig.middleware) |-> i],
              LAMBDA i : clientConfig.middleware[i].onRequest)

UsersWithOnResponse ==
    SelectSeq([i \in 1..Len(clientConfig.middleware) |-> i],
              LAMBDA i : clientConfig.middleware[i].onResponse)

\* The order the contract asks for, written from the configuration alone.
ExpectedOnRequest ==
    <<<<"auth", 0>>>> \o (IF clientConfig.debug THEN <<<<"debug", 0>>>> ELSE <<>>)
                      \o [k \in 1..Len(UsersWithOnRequest) |-> <<"user", UsersWithOnRequest[k]>>]

ExpectedOnResponse ==
    [k \in 1..Len(UsersWithOnResponse) |-> <<"user", Reverse(UsersWithOnResponse)[k]>>]
        \o (IF clientConfig.debug THEN <<<<"debug", 0>>>> ELSE <<>>)

\* The marks the user hooks of ws leave, in the order of ws.
UserMarks(ws) ==
    LET us == SelectSeq(ws, LAMBDA w : w[1] = "user")
    IN  [k \in 1..Len(us) |-> us[k][2]]

CallEvents(phase) == SelectSeq(trace, LAMBDA e : e.op = "call" /\ e.phase = phase)

\* C4: onRequest hooks run auth, debug (if enabled), users in registration
\* order; onResponse hooks run in the reverse order; every hook receives
\* what the previously run hook returned; the dispatched request and the
\* decoded response carry all transforms in that order.
C4_MiddlewareOrder ==
    LET req == CallEvents("onRequest")
        res == CallEvents("onResponse")
    IN  /\ IsPrefix([k \in 1..Len(req) |-> req[k].who], ExpectedOnRequest)
        /\ IsPrefix([k \in 1..Len(res) |-> res[k].who], ExpectedOnResponse)
        /\ \A k \in 1..Len(req) :
             req[k].marks = UserMarks(SubSeq(ExpectedOnRequest, 1, k - 1))
        /\ \A k \in 1..Len(res) :
             res[k].marks = UserMarks(SubSeq(ExpectedOnResponse, 1, k - 1))
        /\ \A d \in DOMAIN dispatched :
             /\ Len(req) = Len(ExpectedOnRequest)
             /\ dispatched[d].marks = UserMarks(ExpectedOnRequest)
        /\ StatusChecked =>
             /\ Len(res) = Len(ExpectedOnResponse)
             /\ response.marks = UserMarks(ExpectedOnResponse)

C4_Witness ==
    /\ pc = "done"
    /\ outcome.kind = "returned"
    /\ clientConfig.debug
    /\ Len(clientConfig.middleware) = 2
    /\ dispatched[1].marks = <<1, 2>>
    /\ response.marks = <<2, 1>>

PhaseRank(phase) ==
    CASE phase = "onRequest" -> 1
      [] phase = "fetch" -> 2
      [] phase = "onResponse" -> 3
      [] OTHER -> 4

\* C5: the phases of one execution never overlap: when a call of a later
\* phase starts, every call of an earlier phase has settled, and whatever
\* is suspended belongs to the phase the execution is in.
C5_PhasesInOrder ==
    /\ \A k \in DOMAIN trace :
         trace[k].op = "call" =>
           \A j \in 1..(k - 1) :
             (trace[j].op = "call" /\ PhaseRank(trace[j].phase) < PhaseRank(trace[k].phase)) =>
               \E m \in (j + 1)..(k - 1) :
                 /\ trace[m].op = "settle"
                 /\ trace[m].phase = trace[j].phase
                 /\ trace[m].who = trace[j].who
    /\ \A r \in running : r.phase = pc
    /\ Cardinality(running) <= 1

C5_Witness ==
    /\ pc = "done"
    /\ outcome.kind = "returned"
    /\ \E j, k \in DOMAIN trace :
         /\ trace[j].op = "settle" /\ trace[j].phase = "onRequest" /\ trace[j].who[1] = "user"
         /\ trace[k].op = "settle" /\ trace[k].phase = "onResponse" /\ trace[k].who[1] = "user"

\* C6: without a per-call override, every request handed to the transport
\* carries Cookie: auth-token=<client credential>, whatever Cookie header
\* the caller set, and the core adds no Authorization header.
C6_CookieInjected ==
    \A d \in DOMAIN dispatched :
        requestConfig.accessToken = Absent =>
            /\ dispatched[d].headers["cookie"] = "auth-token=" \o clientConfig.accessToken
            /\ dispatched[d].headers["authorization"] = requestConfig.headers["authorization"]

C6_Witness ==
    /\ Len(dispatched) = 1
    /\ requestConfig.accessToken = Absent
    /\ requestConfig.headers["cookie"] = "auth-token=stale"
    /\ dispatched[1].headers["cookie"] = "auth-token=tok"

\* C7 as stated: for every override value v, the dispatched request carries
\* Cookie: auth-token=v.
C7_OverrideAlwaysInjected ==
    \A d \in DOMAIN dispatched :
        requestConfig.accessToken # Absent =>
            dispatched[d].headers["cookie"] = "auth-token=" \o requestConfig.accessToken

\* C7 as amended: a non-empty override v is the credential of the execution
\* (Cookie: auth-token=v); with the empty string as override the core
\* injects no cookie at all, so the request keeps the caller's Cookie header;
\* in both cases the client-wide credential is not injected.
C7_OverrideInjectedUnlessEmpty ==
    \A d \in DOMAIN dispatched :
        requestConfig.accessToken # Absent =>
            /\ requestConfig.accessToken # "" =>
                 dispatched[d].headers["cookie"] = "auth-token=" \o requestConfig.accessToken
            /\ requestConfig.accessToken = "" =>
                 dispatched[d].headers["cookie"] = requestConfig.headers["cookie"]
            /\ requestConfig.accessToken # clientConfig.accessToken =>
                 dispatched[d].headers["cookie"] # "auth-token=" \o clientConfig.accessToken

C7_Witness ==
    /\ Len(dispatched) = 1
    /\ requestConfig.accessToken = "ovr"
    /\ dispatched[1].headers["cookie"] = "auth-token=ovr"

\* C8: a failure status with a valid JSON body raises an ApiHttpError with
\* the response's status and statusText and the decoded body as details,
\* and no success decode is performed, whatever the content type.
C8_HttpErrorWithJsonDetails ==
    (StatusChecked /\ ~ok(response) /\ JsonValid(BodyText(response))) =>
        /\ outcome.kind = "raised"
        /\ outcome.value.name = "ApiHttpError"
        /\ outcome.value.status = response.status
        /\ outcome.value.statusText = StatusText(response.status)
        /\ outcome.value.details = JsonParse(BodyText(response))
        /\ BodyText(response) = JsonObjectText => outcome.value.details.code = "not-found"
        /\ \A k \in DOMAIN decodes : decodes[k] \notin SuccessReads

C8_Witness ==
    /\ pc = "done"
    /\ response.status = 404
    /\ response.contentType = "text/event-stream"
    /\ BodyText(response) = JsonObjectText
    /\ outcome.value.name = "ApiHttpError"
    /\ outcome.value.details.code = "not-found"

\* C9: a failure status with a body that is not valid JSON raises an
\* ApiHttpError with the response's status and statusText and the raw body
\* text as details.
C9_HttpErrorWithTextDetails ==
    (StatusChecked /\ ~ok(response) /\ ~JsonValid(BodyText(response))) =>
        /\ outcome.kind = "raised"
        /\ outcome.value.name = "ApiHttpError"
        /\ outcome.value.status = response.status
        /\ outcome.value.statusText = StatusText(response.status)
        /\ outcome.value.details = Str(BodyText(response))

\* C10: sendRequest raises an ApiHttpError exactly for a final status of
\* 400 or higher; a response below 400 is decoded as a success result.
C10_HttpErrorIffStatus400 ==
    (StatusChecked /\ pc = "done") =>
        /\ response.status >= 400 =>
             outcome.kind = "raised" /\ outcome.value.name = "ApiHttpError"
        /\ response.status < 400 =>
             /\ ~(outcome.kind = "raised" /\ outcome.value.name = "ApiHttpError")
             /\ \E k \in DOMAIN decodes : decodes[k] \in SuccessReads

ThrowEvents(phase) == SelectSeq(trace, LAMBDA e : e.op = "throw" /\ e.phase = phase)

SettleEvents(phase) == SelectSeq(trace, LAMBDA e : e.op = "settle" /\ e.phase = phase)

\* C11: when the transport rejects, sendRequest raises an ApiClientError with
\* the message "Network request failed" and the transport's error as cause;
\* no onResponse hook runs, no status check and no decode is made.
C11_NetworkFailure ==
    ThrowEvents("fetch") # <<>> =>
        /\ thrown \in TransportErrors
        /\ outcome.kind = "raised"
        /\ outcome.value.name = "ApiClientError"
        /\ outcome.value.message = "Network request failed"
        /\ outcome.value.cause = thrown
        /\ \A k \in DOMAIN trace : trace[k].phase \notin {"onResponse", "status", "decode"}
        /\ decodes = <<>>
        /\ response = NoResponse

C11_Witness ==
    /\ pc = "done"
    /\ ThrowEvents("fetch") # <<>>
    /\ outcome.value.cause = AbortFailure
    /\ UsersWithOnResponse = <<1, 2>>

\* C12: one execution hands at most one request to the transport: one when
\* every onRequest hook has returned, none otherwise; once sendRequest has
\* settled (network failure and failure status included) nothing more is
\* dispatched and the settlement never changes.
C12_SingleDispatch ==
    /\ [](/\ Len(dispatched) <= 1
          /\ Len(CallEvents("fetch")) = Len(dispatched)
          /\ Len(dispatched) = 1 =>
               /\ Len(SettleEvents("onRequest")) = Len(ExpectedOnRequest)
               /\ ThrowEvents("onRequest") = <<>>
          /\ (pc = "done" /\ Len(SettleEvents("onRequest")) = Len(ExpectedOnRequest)) =>
               Len(dispatched) = 1
          /\ pc \in {"fetch", "onResponse", "decode"} => Len(dispatched) = 1
          /\ (pc = "done") = (outcome.kind # "pending"))
    /\ [][outcome.kind # "pending" =>
            /\ outcome' = outcome
            /\ result' = result
            /\ dispatched' = dispatched]_vars

C12_Witness ==
    /\ pc = "done"
    /\ Len(dispatched) = 1
    /\ outcome.kind = "raised"
    /\ outcome.value.name = "ApiHttpError"
    /\ outcome.value.status = 404
    /\ UsersWithOnRequest = <<1, 2>>

\* C13: a hook that throws aborts the pipeline at that hook with an
\* ApiClientError whose message names the phase and whose cause is the thrown
\* value.  After an onRequest failure no further hook runs and nothing is
\* dispatched; after an onResponse failure no further hook runs and neither
\* the status check nor a decode happens, whatever the response status.
C13_HookFailureAborts ==
    /\ ThrowEvents("onRequest") # <<>> =>
         /\ thrown \in HookErrors
         /\ outcome.kind = "raised"
         /\ outcome.value.name = "ApiClientError"
         /\ outcome.value.message = "Middleware onRequest error"
         /\ outcome.value.cause = thrown
         /\ trace[Len(trace)].op = "throw"
         /\ trace[Len(trace)].phase = "onRequest"
         /\ \A k \in DOMAIN trace : trace[k].phase = "onRequest"
         /\ dispatched = <<>>
         /\ decodes = <<>>
    /\ ThrowEvents("onResponse") # <<>> =>
         /\ thrown \in HookErrors
         /\ outcome.kind = "raised"
         /\ outcome.value.name = "ApiClientError"
         /\ outcome.value.message = "Middleware onResponse error"
         /\ outcome.value.cause = thrown
         /\ trace[Len(trace)].op = "throw"
         /\ trace[Len(trace)].phase = "onResponse"
         /\ ~StatusChecked
         /\ \A k \in DOMAIN trace : trace[k].phase # "decode"
         /\ decodes = <<>>

C13_Witness ==
    /\ pc = "done"
    /\ ThrowEvents("onResponse") # <<>>
    /\ trace[Len(trace)].who = <<"user", 2>>
    /\ UsersWithOnResponse = <<1, 2>>
    /\ response.status = 404
    /\ outcome.value.cause = HookRejection
    /\ outcome.value.name = "ApiClientError"

Decoded == \E k \in DOMAIN trace : trace[k].phase = "decode"

JsonContentTypes == {"application/json", "application/json; charset=utf-8"}

\* C14: a success response gets exactly one decode, chosen by its content
\* type: JSON types give the parsed body, application/octet-stream the bytes
\* of the body, text/event-stream the result of the event-stream extractor
\* (no JSON read of the response), everything else and an absent type the
\* body as text.
C14_OneDecodeByContentType ==
    Decoded =>
        /\ ok(response)
        /\ Len(decodes) = 1
        /\ decodes[1] \in SuccessReads
        /\ response.contentType \in JsonContentTypes =>
             /\ decodes = <<"json">>
             /\ JsonValid(BodyText(response)) =>
                  outcome = [kind |-> "returned", value |-> JsonParse(BodyText(response))]
        /\ response.contentType = "application/octet-stream" =>
             /\ decodes = <<"arrayBuffer">>
             /\ outcome = [kind |-> "returned",
                           value |-> [t |-> "bytes", v |-> BodyText(response)]]
        /\ response.contentType = "text/event-stream" =>
             /\ decodes = <<"sse">>
             /\ outcome.value = handleSseResponse(response).with
        /\ response.contentType \in {"text/plain", Absent} =>
             /\ decodes = <<"text">>
             /\ outcome = [kind |-> "returned", value |-> Str(BodyText(response))]

C14_Witness ==
    /\ pc = "done"
    /\ Decoded
    /\ response.contentType = "application/json; charset=utf-8"
    /\ BodyText(response) = JsonObjectText
    /\ outcome.kind = "returned"
    /\ outcome.value.code = "not-found"

\* The events of the stream whose closing blank line is part of the text.
CompleteEvents ==
    IF sse.truncated THEN SubSeq(sse.events, 1, Len(sse.events) - 1) ELSE sse.events

\* The whole text has been read from a body that is a stream.
Delivered ==
    /\ sse.body # NullBody
    /\ sse.state \in {"reading", "closed"}
    /\ sse.rest = <<>>

NamedTerminal(ev) == ev.event \in {"end", "error"}

Terminal(ev) == ev.event \in {"end", "error"} /\ ev.data # ""

\* The index of the first event of events that satisfies Test, or 0.
FirstIndex(events, Test(_)) ==
    IF \E k \in DOMAIN events : Test(events[k])
    THEN CHOOSE k \in DOMAIN events :
           Test(events[k]) /\ \A j \in 1..(k - 1) : ~Test(events[j])
    ELSE 0

ExpectedFileId(data) ==
    CASE data = GoodEndData -> <<"a", "b", "c", "-", "1", "2", "3">>
      [] data = NestedPrefixEndData -> <<"~", "u", "1">>
      [] data = TwoElementEndData -> <<"a", "b", "c", "-", "1", "2", "3">>
      [] OTHER -> <<>>

\* C15: a stream of non-terminal events followed by an end event with the
\* data ["~u<id>"] resolves with the one-field record {fileId: <id>}, the
\* prefix ~u removed once, whatever the chunks the text arrives in.
C15_GoodStreamResolves ==
    LET n == Len(sse.events)
    IN  (/\ Delivered
         /\ ~sse.truncated
         /\ n > 0
         /\ \A k \in 1..(n - 1) : ~NamedTerminal(sse.events[k])
         /\ sse.events[n].event = "end"
         /\ sse.events[n].data \in {GoodEndData, NestedPrefixEndData}) =>
            sse.promise = [do |-> "resolve",
                           with |-> [fileId |-> ExpectedFileId(sse.events[n].data)]]

C15_Witness ==
    /\ sse.state = "closed"
    /\ sse.events = <<[event |-> "progress", data |-> "{}"],
                      [event |-> "end", data |-> NestedPrefixEndData]>>
    /\ sse.reads = 10
    /\ sse.promise.do = "resolve"
    /\ sse.promise.with.fileId = <<"~", "u", "1">>

DeviatingEndData ==
    {NotJsonData, ObjectData, EmptyArrayData, NumberArrayData, NoPrefixEndData}

EndRejections(data) ==
    {"Failed to parse SSE 'end' event data: " \o data,
     "Unexpected SSE 'end' event data format: " \o data}

C17_OnlySingleElementAccepted ==
    LET k == FirstIndex(CompleteEvents, Terminal)
    IN  (/\ Delivered
         /\ k > 0
         /\ CompleteEvents[k].event = "end"
         /\ CompleteEvents[k].data = TwoElementEndData) =>
            /\ sse.promise.do = "reject"
            /\ sse.promise.with.name = "ApiClientError"

\* C17 as amended: the data of the end event is accepted when it is an array
\* of one or more elements whose first element is a string beginning with
\* ~u; the further elements are ignored and the promise resolves with the
\* identifier of the first element.
C17_FirstElementAccepted ==
    LET k == FirstIndex(CompleteEvents, Terminal)
    IN  (/\ Delivered
         /\ k > 0
         /\ CompleteEvents[k].event = "end"
         /\ CompleteEvents[k].data \in {GoodEndData, NestedPrefixEndData, TwoElementEndData}) =>
            sse.promise = [do |-> "resolve",
                           with |-> [fileId |-> ExpectedFileId(CompleteEvents[k].data)]]

C17_Witness ==
    /\ sse.state = "closed"
    /\ sse.events = <<[event |-> "end", data |-> TwoElementEndData]>>
    /\ sse.reads > 2
    /\ sse.promise.do = "resolve"
    /\ sse.promise.with.fileId = <<"a", "b", "c", "-", "1", "2", "3">>

ExpectedErrorCause(data) ==
    CASE data = ObjectData -> [t |-> "object", code |-> "invalid-file"]
      [] OTHER -> Str(data)

ExpectedFieldName(key) ==
    CASE key = KeyProjectId -> <<"p", "r", "o", "j", "e", "c", "t", "-", "i", "d">>
      [] key = KeyName -> <<"n", "a", "m", "e">>
      [] key = KeyVersion -> <<"v", "e", "r", "s", "i", "o", "n">>
      [] OTHER -> <<>>

ExpectedFieldText(value) ==
    CASE value = Str("p1") -> "p1"
      [] value = Str("design.penpot") -> "design.penpot"
      [] value = Num(3) -> "3"
      [] value = Str("") -> ""
      [] OTHER -> "undefined"

HasFile(body) ==
    body # Undefined /\ \E k \in DOMAIN body.entries : body.entries[k].key = KeyFile

NonFileFields(body) == SelectSeq(body.entries, LAMBDA e : e.key # KeyFile)

ExpectedPart(e) ==
    [name |-> ExpectedFieldName(e.key), value |-> Str(ExpectedFieldText(e.value)),
     filename |-> Absent]

\* C20 as stated: the body dispatched for a file-bearing mapping is a
\* multipart form in which every non-file field of the mapping is one form
\* field (kebab-case name, stringified value) and the file part is the last.
C20_EveryFieldInForm ==
    \A d \in DOMAIN dispatched :
        HasFile(requestConfig.body) =>
            /\ dispatched[d].body.kind = "formdata"
            /\ LET parts == dispatched[d].body.parts
                   fields == NonFileFields(requestConfig.body)
               IN  /\ \A f \in DOMAIN fields :
                        Cardinality({k \in DOMAIN parts : parts[k] = ExpectedPart(fields[f])}) = 1
                   /\ parts[Len(parts)].name = KeyFile
                   /\ parts[Len(parts)].value = [t |-> "Blob", v |-> "bytes"]
                   /\ \A k \in 1..(Len(parts) - 1) : parts[k].name # KeyFile

\* C20 as amended: the form holds, in the order of the mapping, one field
\* (kebab-case name, stringified value) for every non-file field whose value
\* is not undefined, and then the file part; a field whose value is
\* undefined has no form field.
C20_DefinedFieldsInForm ==
    \A d \in DOMAIN dispatched :
        HasFile(requestConfig.body) =>
            /\ dispatched[d].body.kind = "formdata"
            /\ LET parts == dispatched[d].body.parts
                   kept == SelectSeq(NonFileFields(requestConfig.body),
                                     LAMBDA e : e.value # Undefined)
               IN  /\ Len(parts) = Len(kept) + 1
                   /\ \A k \in DOMAIN kept : parts[k] = ExpectedPart(kept[k])
                   /\ parts[Len(parts)].name = KeyFile
                   /\ parts[Len(parts)].value = [t |-> "Blob", v |-> "bytes"]

C20_Witness ==
    /\ Len(dispatched) = 1
    /\ requestConfig.body = FileMappingUndefinedVersion
    /\ Len(dispatched[1].body.parts) = 3
    /\ dispatched[1].body.parts[1].name = <<"p", "r", "o", "j", "e", "c", "t", "-", "i", "d">>
    /\ dispatched[1].body.parts[3].name = KeyFile

\* The name the caller provided: the name property when it is a non-empty
\* string, nothing otherwise.
ProvidedName(body) ==
    IF \E k \in DOMAIN body.entries :
         /\ body.entries[k].key = KeyName
         /\ body.entries[k].value.t = "string"
         /\ body.entries[k].value.v # ""
    THEN body.entries[CHOOSE k \in DOMAIN body.entries : body.entries[k].key = KeyName].value.v
    ELSE Absent

\* C21: the filename of the file part is the name of the body when a name
\* is provided, and "untitled" when none is (no name property, undefined
\* name, empty name).
C21_FileNameOrUntitled ==
    \A d \in DOMAIN dispatched :
        HasFile(requestConfig.body) =>
            LET parts == dispatched[d].body.parts
            IN  parts[Len(parts)].filename =
                    (IF ProvidedName(requestConfig.body) # Absent
                     THEN ProvidedName(requestConfig.body)
                     ELSE "untitled")

Execution(e) == client.executions[e]

RECURSIVE AllOnRequest(_, _, _, _)
AllOnRequest(all, i, req, token) ==
    IF i > Len(all) THEN req
    ELSE AllOnRequest(all, i + 1,
                      IF all[i].onRequest THEN OnRequestResult(all[i], req, token) ELSE req,
                      token)

RECURSIVE AllOnResponse(_, _, _)
AllOnResponse(all, i, res) ==
    IF i < 1 THEN res
    ELSE AllOnResponse(all, i - 1,
                       IF all[i].onResponse THEN OnResponseResult(all[i], res) ELSE res)

RunAlone(cc, rc) ==
    IF RequestThrows(rc.method, finalBody(rc.body))
    THEN [dispatched |-> <<>>,
          result |-> ExecCatch(RuntimeError("TypeError",
                                            "Request with GET/HEAD method cannot have body"))]
    ELSE LET all == allMiddleware(cc)
             req == AllOnRequest(all, 1,
                                 NewRequest(URL(rc.path, cc.baseUrl), rc.method,
                                            finalHeaders(rc), finalBody(rc.body)),
                                 finalAccessToken(cc, rc))
             answer == Transport(req)
         IN  IF answer.kind = "reject"
             THEN [dispatched |-> <<req>>, result |-> ExecCatch(NetworkError(answer.error))]
             ELSE LET res == AllOnResponse(all, Len(all), answer.res)
                  IN  [dispatched |-> <<req>>,
                       result |-> ResultOf(IF ok(res) THEN Decode(res) ELSE FailureStatus(res))]

ExportBody(ex) == ex.dispatched[1].body.of.entries

Requested(value, default) == IF value = Undefined THEN default ELSE value

\* C24: the body dispatched for exportFile carries the includeLibraries,
\* embedAssets and version the caller asked for, the defaults true, false
\* and 3 standing in only for what the caller left out.
C24_ExportFlagsHonored ==
    \A e \in Executions :
        (client.call.op = "exportFile" /\ Execution(e).dispatched # <<>>) =>
            /\ Property(ExportBody(Execution(e)), KeyFileId) = client.call.params.id
            /\ Property(ExportBody(Execution(e)), KeyIncludeLibraries) =
                 Requested(client.call.params.includeLibraries, Bool(TRUE))
            /\ Property(ExportBody(Execution(e)), KeyEmbedAssets) =
                 Requested(client.call.params.embedAssets, Bool(FALSE))
            /\ Property(ExportBody(Execution(e)), KeyVersion) =
                 Requested(client.call.params.version, Num(3))

Credentials == {"tok", "ovr"}

LogHoldsCredential(entry) ==
    \E h \in DOMAIN entry.headers, c \in Credentials :
        entry.headers[h] \in {c, "auth-token=" \o c, "Bearer " \o c}

DifferInCredentialOnly(e, f) ==
    /\ Execution(e).pc # "idle"
    /\ Execution(f).pc # "idle"
    /\ Execution(e).rc.accessToken # Execution(f).rc.accessToken
    /\ [Execution(e).rc EXCEPT !.accessToken = Absent] =
           [Execution(f).rc EXCEPT !.accessToken = Absent]

Logged(e) == clientConfig.debug /\ Execution(e).dispatched # <<>>

IsSuffix(s, t) ==
    Len(s) <= Len(t) /\ \A k \in 1..Len(s) : s[k] = t[Len(t) - Len(s) + k]

\* C26: the URL of a dispatched request begins with the whole base URL and
\* ends with the request path.
C26_UrlIsBasePlusPath ==
    \A e \in Executions : \A d \in DOMAIN Execution(e).dispatched :
        LET url == Execution(e).dispatched[d].url
        IN  /\ url.origin = clientConfig.baseUrl.origin
            /\ IsPrefix(clientConfig.baseUrl.segments, url.segments)
            /\ IsSuffix(Execution(e).rc.path.segments, url.segments)

Dispatch(req) == [url |-> req.url, method |-> req.method, headers |-> req.headers,
                  body |-> req.body]

\* C30: no step of an execution changes a builder, so an execution sees the
\* request spec the setters left; two executions of one builder with the
\* same request spec hand the same method, URL, headers and body to the
\* transport.
C30_ExecLeavesBuilderAlone ==
    /\ [](\A e, f \in Executions :
            (/\ Execution(e).builder = Execution(f).builder
             /\ Execution(e).rc = Execution(f).rc
             /\ Execution(e).dispatched # <<>>
             /\ Execution(f).dispatched # <<>>) =>
                Dispatch(Execution(e).dispatched[1]) = Dispatch(Execution(f).dispatched[1]))
    /\ [][client'.executions # client.executions =>
            client'.builders = client.builders]_vars
    /\ [][\A e \in Executions :
            (Execution(e).pc = "idle" /\ client'.executions[e].pc # "idle") =>
                client'.executions[e].rc = client.builders[client'.executions[e].builder]]_vars

C30_Witness ==
    /\ client.call.op = "importFile"
    /\ Execution(1).builder = 1
    /\ Execution(2).builder = 1
    /\ Execution(1).pc = "done"
    /\ Execution(2).pc = "done"
    /\ Execution(1).rc = Execution(2).rc
    /\ client.builders[1] = Execution(1).rc
    /\ client.builders[1].headers["content-type"] = "application/json"
    /\ Execution(2).dispatched[1].headers["content-type"] = "multipart/form-data"
    /\ Execution(1).dispatched = Execution(2).dispatched

ErrorEvent(ev) == ev.event = "error"

EndWithData(ev) == ev.event = "end" /\ ev.data # ""

SettlementInOrder ==
    LET k == FirstIndex(CompleteEvents, Terminal)
    IN  IF k > 0 THEN OnEvent(CompleteEvents[k])
        ELSE IF sse.ending = "close" THEN StreamEnded
        ELSE ReadError(thrown)

\* C28: when the stream has ended or failed the promise is settled; on a
\* stream read to its end the settlement is the one of the first end or
\* error event with data, else of the read failure, else of the end of the
\* stream; on a stream whose read failed early it is that one or the read
\* failure; a settled promise never changes.
C28_SettlesOnceFirstWins ==
    /\ [](sse.state = "closed" => sse.promise.do \in {"resolve", "reject"})
    /\ []((sse.state = "closed" /\ Delivered) => sse.promise = SettlementInOrder)
    /\ []((sse.state = "closed" /\ sse.body # NullBody /\ sse.rest # <<>>) =>
            sse.promise \in {SettlementInOrder, ReadError(thrown)})
    /\ [][sse.promise.do # "none" => sse'.promise = sse.promise]_vars

C28_Witness ==
    /\ sse.state = "closed"
    /\ sse.ending = "error"
    /\ sse.rest = <<>>
    /\ sse.events = <<[event |-> "end", data |-> GoodEndData],
                      [event |-> "error", data |-> ObjectData]>>
    /\ sse.reads > 2
    /\ sse.promise.do = "resolve"
    /\ sse.promise.with.fileId = <<"a", "b", "c", "-", "1", "2", "3">>

\* C29: once the promise is settled by an event the reading has stopped:
\* the loop of processStream is left, and no further chunk is read.
C29_StopsReadingAfterSettlement ==
    /\ [](sse.promise.do # "none" => sse.state = "closed")
    /\ [][sse.promise.do # "none" => sse'.reads = sse.reads]_vars

====
